---- MODULE Spec2Model ----
(***************************************************************************)
(* Model of the two Streamlit dashboards of the repository:                *)
(*   predict.py            - multi-region dashboard (chart + summary table)*)
(*   predictionanalysis.py - single-region dashboard (chart + per-item     *)
(*                           reports + summary table)                      *)
(* One run of a script is a behaviour: the sidebar widgets return the      *)
(* user's selections, then the script runs top to bottom.                  *)
(*                                                                         *)
(* Numbers.  Quantities are naturals.  Values the scripts hold as floats   *)
(* are kept exactly: a mean is a fraction [num, den], the forecast         *)
(* total * 1.1 is kept in tenths (11 * total), the sample standard         *)
(* deviation is kept as its square (a fraction) or as NaN.                 *)
(***************************************************************************)
EXTENDS Integers, Sequences, FiniteSets, TLC

\* ------------------------------------------------------------------ bounds
MaxRows == 2
MaxTopN == 3
MaxForecastQty == 300

\* ------------------------------------------------------- program constants
top_n_min == 3
top_n_items_min == 1
top_n_btq_min == 3

\* ------------------------------------------------------------ input domains
\* Python orders strings lexicographically; each sequence lists its strings
\* in that order, and Pos gives a string's rank.
RegionOrder == <<"East", "West">>
ItemOrder == <<"A1", "B2">>
BTQOrder == <<"X", "Y">>

Range(s) == {s[i] : i \in DOMAIN s}
Pos(order, x) == CHOOSE i \in DOMAIN order : order[i] = x
Min2(a, b) == IF a < b THEN a ELSE b

SeqsUpTo(S, n) == UNION {[1..k -> S] : k \in 0..n}

\* Rows of final1.csv after loading (and, in predictionanalysis.py, after the
\* rows with an invalid docdate, qty or value were dropped).  docdate is the
\* calendar month of the date, counted in months.
RowsRegional ==
  [region : {"East", "West"}, categories : {"Chain", "Ring"},
   itemcode : {"A1", "B2"}, BTQ : {"X"}, docdate : {1}, qty : {1, 2},
   value : {10}]

RowsOneItem ==
  [region : {"East"}, categories : {"Ring"}, itemcode : {"A1"},
   BTQ : {"X", "Y"}, docdate : {1, 2, 3}, qty : {0, 1, 2}, value : {10}]

RowsLargeQty ==
  [region : {"East"}, categories : {"Ring"}, itemcode : {"A1"},
   BTQ : {"X"}, docdate : {1}, qty : 0..MaxForecastQty, value : {10}]

\* The end-to-end example: item A1 sold 100 at outlet X and 40 at outlet Y.
ExampleA1 ==
  << [region |-> "East", categories |-> "Ring", itemcode |-> "A1",
      BTQ |-> "X", docdate |-> 1, qty |-> 100, value |-> 10],
     [region |-> "East", categories |-> "Ring", itemcode |-> "A1",
      BTQ |-> "Y", docdate |-> 1, qty |-> 40, value |-> 10] >>

VARIABLES
  app,                 \* which script runs: "predict" or "predictionanalysis"
  pc,                  \* position of the script
  df,                  \* the loaded dataset
  selected_region,     \* predictionanalysis.py: selectbox ("None": no option)
  selected_regions,    \* predict.py: multiselect
  selected_categories, \* multiselect
  top_n,               \* predict.py slider
  top_n_items,         \* predictionanalysis.py slider
  top_n_btq,           \* predictionanalysis.py slider
  selected_columns,    \* predict.py: columns to display
  filtered_df,
  agg_df,
  top_items_df,
  top_items,
  loop_i,              \* number of iterations of the per-item loop done
  reports,             \* what each iteration displayed for its item
  all_table_data,
  description_text,
  table_df,
  rendered             \* the Streamlit elements written to the page, in order

vars == <<app, pc, df, selected_region, selected_regions, selected_categories,
          top_n, top_n_items, top_n_btq, selected_columns, filtered_df, agg_df,
          top_items_df, top_items, loop_i, reports, all_table_data,
          description_text, table_df, rendered>>

\* ------------------------------------------------------------- aggregation
RECURSIVE SumQty(_)
SumQty(rows) ==
  IF rows = <<>> THEN 0 ELSE Head(rows).qty + SumQty(Tail(rows))

RECURSIVE SumValue(_)
SumValue(rows) ==
  IF rows = <<>> THEN 0 ELSE Head(rows).value + SumValue(Tail(rows))

\* sorted(x.unique()): the distinct values of a column, in order.
SortedUnique(order, present) == SelectSeq(order, LAMBDA x : x \in present)

\* All (region, itemcode) keys in lexicographic order.
RegionItemKeys ==
  [k \in 1..(Len(RegionOrder) * Len(ItemOrder)) |->
     <<RegionOrder[((k - 1) \div Len(ItemOrder)) + 1],
       ItemOrder[((k - 1) % Len(ItemOrder)) + 1]>>]

\* GroupByRegionItem with a fault: groups on itemcode alone and labels the group
\* with the region of its first row.
GroupByRegionItemMerged(rows) ==
  LET keys == SelectSeq(ItemOrder,
                LAMBDA c : \E j \in DOMAIN rows : rows[j].itemcode = c)
  IN [j \in DOMAIN keys |->
        LET grp == SelectSeq(rows, LAMBDA t : t.itemcode = keys[j])
        IN [region |-> Head(grp).region, itemcode |-> keys[j],
            qty |-> SumQty(grp)]]

\* groupby(['region', 'itemcode']).agg({'qty': 'sum'}).reset_index(): one row
\* per key that occurs, keys in sorted order, qty summed over the group.
GroupByRegionItem(rows) ==
  LET keys == SelectSeq(RegionItemKeys,
                LAMBDA k : \E j \in DOMAIN rows :
                   rows[j].region = k[1] /\ rows[j].itemcode = k[2])
  IN [j \in DOMAIN keys |->
        [region |-> keys[j][1], itemcode |-> keys[j][2],
         qty |-> SumQty(SelectSeq(rows,
                   LAMBDA t : t.region = keys[j][1] /\ t.itemcode = keys[j][2]))]]

\* groupby('itemcode') summing qty and value.
GroupByItem(rows) ==
  LET keys == SelectSeq(ItemOrder,
                LAMBDA c : \E j \in DOMAIN rows : rows[j].itemcode = c)
  IN [j \in DOMAIN keys |->
        LET grp == SelectSeq(rows, LAMBDA t : t.itemcode = keys[j])
        IN [itemcode |-> keys[j], qty |-> SumQty(grp), value |-> SumValue(grp)]]

\* ----------------------------------------------------------------- ranking
\* Row a sorts strictly before row b under ['region', 'qty'],
\* ascending = [True, False].
RegionQtyBefore(a, b) ==
  \/ Pos(RegionOrder, a.region) < Pos(RegionOrder, b.region)
  \/ a.region = b.region /\ a.qty > b.qty

RECURSIVE InsertRegionQty(_, _)
InsertRegionQty(x, s) ==
  IF s = <<>> \/ ~RegionQtyBefore(Head(s), x)
  THEN <<x>> \o s
  ELSE <<Head(s)>> \o InsertRegionQty(x, Tail(s))

\* sort_values on several columns is a lexicographic sort, which is stable:
\* rows equal on both keys keep their order.
RECURSIVE SortValuesRegionQty(_)
SortValuesRegionQty(s) ==
  IF s = <<>> THEN <<>>
  ELSE InsertRegionQty(Head(s), SortValuesRegionQty(Tail(s)))

RECURSIVE SubSeqAt(_, _, _)
SubSeqAt(s, keep, i) ==
  IF i > Len(s) THEN <<>>
  ELSE (IF i \in keep THEN <<s[i]>> ELSE <<>>) \o SubSeqAt(s, keep, i + 1)

\* groupby('region').head(n): the first n rows of every region, in the order
\* of the frame.
GroupHead(s, n) ==
  SubSeqAt(s, {i \in DOMAIN s :
                 Cardinality({j \in 1..(i - 1) : s[j].region = s[i].region}) < n}, 1)

\* head(n) of a frame.
HeadN(s, n) == SubSeq(s, 1, Min2(n, Len(s)))

\* sort_values("qty", ascending=False) sorts one column with the default
\* kind, quicksort, which is not stable: the result is some arrangement of the
\* rows with qty non-increasing; the order among equal qty is not determined.
SortValuesQtyDescending(s) ==
  {[i \in DOMAIN s |-> s[p[i]]] :
     p \in {q \in [DOMAIN s -> DOMAIN s] :
              /\ \A i, j \in DOMAIN s : q[i] = q[j] => i = j
              /\ \A i \in 1..(Len(s) - 1) : s[q[i]].qty >= s[q[i + 1]].qty}}

\* ---------------------------------------------------------------- forecast
\* Python's round(): to the nearest integer, a half to the even neighbour.
\* The argument is the fraction n / d, n >= 0, d > 0.
RoundHalfEven(n, d) ==
  LET fl == n \div d
      r2 == 2 * (n % d)
  IN IF r2 > d \/ (r2 = d /\ fl % 2 = 1) THEN fl + 1 ELSE fl

\* table_df['qty'] * 1.1, in tenths.
NextMonthForecast(qty) == 11 * qty

\* lambda x: round(x / 10) * 10, x in tenths.  (In double arithmetic the
\* product qty * 1.1 can land just above a half; up to qty = 349 the result
\* is the one computed here.)
FutureBatchRecommendation(x) == RoundHalfEven(x, 100) * 10

\* ------------------------------------------------------------------- state
all_columns ==
  <<"No", "Itemcode", "Total Sold (Qty)", "Total Value (Rs)",
    "Next Month Forecast (Qty)", "Future Batch Recommendation">>

ColumnChoices == {all_columns, <<"Itemcode", "Total Sold (Qty)">>}

NoTable == [columns |-> <<>>, rows |-> <<>>]

InitWith(datasets) ==
  /\ df \in datasets
  /\ app \in {"predict", "predictionanalysis"}
  /\ pc = "sidebar"
  /\ selected_region = "None"
  /\ selected_regions = {}
  /\ selected_categories = {}
  /\ top_n = top_n_min
  /\ top_n_items = top_n_items_min
  /\ top_n_btq = top_n_btq_min
  /\ selected_columns = all_columns
  /\ filtered_df = <<>>
  /\ agg_df = <<>>
  /\ top_items_df = <<>>
  /\ top_items = <<>>
  /\ loop_i = 0
  /\ reports = <<>>
  /\ all_table_data = <<>>
  /\ description_text = <<>>
  /\ table_df = NoTable
  /\ rendered = <<>>

Init == InitWith(SeqsUpTo(RowsRegional, MaxRows))

InitItem == InitWith(SeqsUpTo(RowsOneItem, MaxRows) \cup {ExampleA1})

InitForecast == InitWith(SeqsUpTo(RowsLargeQty, 1) \cup {ExampleA1})

\* ------------------------------------------------------------- predict.py
PredictSidebarFilters ==
  /\ app = "predict" /\ pc = "sidebar"
  /\ \E rs \in SUBSET {t.region : t \in Range(df)},
        cs \in SUBSET {t.categories : t \in Range(df)},
        n \in top_n_min..MaxTopN,
        cols \in ColumnChoices :
       /\ selected_regions' = rs
       /\ selected_categories' = cs
       /\ top_n' = n
       /\ selected_columns' = cols
  /\ pc' = "filter"
  /\ UNCHANGED <<app, df, selected_region, top_n_items, top_n_btq, filtered_df,
                 agg_df, top_items_df, top_items, loop_i, reports,
                 all_table_data, description_text, table_df, rendered>>

PredictFilterData ==
  /\ app = "predict" /\ pc = "filter"
  /\ filtered_df' = SelectSeq(df, LAMBDA t :
                       t.region \in selected_regions
                       /\ t.categories \in selected_categories)
  /\ pc' = "chart"
  /\ UNCHANGED <<app, df, selected_region, selected_regions,
                 selected_categories, top_n, top_n_items, top_n_btq,
                 selected_columns, agg_df, top_items_df, top_items, loop_i,
                 reports, all_table_data, description_text, table_df, rendered>>

PredictChart ==
  /\ app = "predict" /\ pc = "chart"
  /\ agg_df' = GroupByRegionItem(filtered_df)
  /\ top_items_df' = GroupHead(SortValuesRegionQty(agg_df'), top_n)
  /\ rendered' = Append(rendered, "plotly_chart")
  /\ pc' = "table"
  /\ UNCHANGED <<app, df, selected_region, selected_regions,
                 selected_categories, top_n, top_n_items, top_n_btq,
                 selected_columns, filtered_df, top_items, loop_i, reports,
                 all_table_data, description_text, table_df>>

PredictTableRows(rows) ==
  LET g == GroupByItem(rows)
  IN [j \in DOMAIN g |->
        [No |-> j,
         Itemcode |-> g[j].itemcode,
         Total_Sold_Qty |-> g[j].qty,
         Total_Value_Rs |-> g[j].value,
         Next_Month_Forecast_Qty |-> NextMonthForecast(g[j].qty),
         Future_Batch_Recommendation |->
           FutureBatchRecommendation(NextMonthForecast(g[j].qty))]]

PredictTable ==
  /\ app = "predict" /\ pc = "table"
  /\ table_df' = [columns |-> selected_columns,
                  rows |-> PredictTableRows(filtered_df)]
  /\ rendered' = rendered \o <<"subheader", "dataframe">>
  /\ pc' = "done"
  /\ UNCHANGED <<app, df, selected_region, selected_regions,
                 selected_categories, top_n, top_n_items, top_n_btq,
                 selected_columns, filtered_df, agg_df, top_items_df,
                 top_items, loop_i, reports, all_table_data, description_text>>

\* ------------------------------------------------- predictionanalysis.py
AnalysisSidebarFilters ==
  /\ app = "predictionanalysis" /\ pc = "sidebar"
  /\ LET regions == SortedUnique(RegionOrder, {t.region : t \in Range(df)})
     IN IF regions = <<>>
        THEN selected_region' = "None"
        ELSE selected_region' \in Range(regions)
  /\ selected_categories' \in SUBSET {t.categories : t \in Range(df)}
  /\ top_n_items' \in top_n_items_min..MaxTopN
  /\ top_n_btq' \in top_n_btq_min..MaxTopN
  /\ pc' = "filter"
  /\ UNCHANGED <<app, df, selected_regions, top_n, selected_columns,
                 filtered_df, agg_df, top_items_df, top_items, loop_i,
                 reports, all_table_data, description_text, table_df, rendered>>

AnalysisFilterData ==
  /\ app = "predictionanalysis" /\ pc = "filter"
  /\ filtered_df' = SelectSeq(df, LAMBDA t :
                       t.region = selected_region
                       /\ t.categories \in selected_categories)
  /\ pc' = IF filtered_df' = <<>> THEN "empty" ELSE "chart"
  /\ UNCHANGED <<app, df, selected_region, selected_regions,
                 selected_categories, top_n, top_n_items, top_n_btq,
                 selected_columns, agg_df, top_items_df, top_items, loop_i,
                 reports, all_table_data, description_text, table_df, rendered>>

\* if filtered_df.empty: st.warning(...)
AnalysisNoData ==
  /\ app = "predictionanalysis" /\ pc = "empty"
  /\ rendered' = Append(rendered, "warning: no data")
  /\ pc' = "done"
  /\ UNCHANGED <<app, df, selected_region, selected_regions,
                 selected_categories, top_n, top_n_items, top_n_btq,
                 selected_columns, filtered_df, agg_df, top_items_df,
                 top_items, loop_i, reports, all_table_data, description_text,
                 table_df>>

AnalysisTopItemsChart ==
  /\ app = "predictionanalysis" /\ pc = "chart"
  /\ agg_df' = GroupByRegionItem(filtered_df)
  /\ top_items_df' = GroupHead(SortValuesRegionQty(agg_df'), top_n_items)
  /\ rendered' = Append(rendered, "plotly_chart")
  /\ pc' = "identify"
  /\ UNCHANGED <<app, df, selected_region, selected_regions,
                 selected_categories, top_n, top_n_items, top_n_btq,
                 selected_columns, filtered_df, top_items, loop_i, reports,
                 all_table_data, description_text, table_df>>

\* item_summary = filtered_df.groupby("itemcode")["qty"].sum().reset_index()
ItemSummary(rows) ==
  LET g == GroupByItem(rows)
  IN [j \in DOMAIN g |-> [itemcode |-> g[j].itemcode, qty |-> g[j].qty]]

AnalysisIdentifyTopItems ==
  /\ app = "predictionanalysis" /\ pc = "identify"
  /\ \E sorted \in SortValuesQtyDescending(ItemSummary(filtered_df)) :
       top_items' = HeadN(sorted, top_n_items)
  /\ rendered' = Append(rendered, "title")
  /\ description_text' = <<>>
  /\ all_table_data' = <<>>
  /\ pc' = "loop"
  /\ UNCHANGED <<app, df, selected_region, selected_regions,
                 selected_categories, top_n, top_n_items, top_n_btq,
                 selected_columns, filtered_df, agg_df, top_items_df, loop_i,
                 reports, table_df>>

\* item_df.groupby("BTQ")["qty"].sum().reset_index(), before the sort.
GroupByBTQ(rows) ==
  LET keys == SelectSeq(BTQOrder,
                LAMBDA b : \E j \in DOMAIN rows : rows[j].BTQ = b)
  IN [j \in DOMAIN keys |->
        [BTQ |-> keys[j],
         qty |-> SumQty(SelectSeq(rows, LAMBDA t : t.BTQ = keys[j]))]]

RECURSIVE SumSquares(_)
SumSquares(s) ==
  IF s = <<>> THEN 0 ELSE Head(s).qty * Head(s).qty + SumSquares(Tail(s))

NaN == [nan |-> TRUE, num |-> 0, den |-> 1]

\* btq_summary["qty"].mean(), the fraction num / den.
MeanSales(btq_summary) ==
  [num |-> SumQty(btq_summary), den |-> Len(btq_summary)]

\* btq_summary["qty"].std(): the sample standard deviation (ddof = 1), NaN
\* for fewer than two values.  Kept as its square num / den.
StdSales(btq_summary) ==
  LET n == Len(btq_summary)
      s == SumQty(btq_summary)
  IN IF n < 2 THEN NaN
     ELSE [nan |-> FALSE, num |-> n * SumSquares(btq_summary) - s * s,
           den |-> n * (n - 1)]

\* round((1 - std_sales / mean_sales) * 100, 2) if mean_sales > 0 else 0.
\* kind "value" stands for round((1 - sqrt(num / den)) * 100, 2), where
\* num / den is (std_sales / mean_sales) squared; with std_sales NaN the
\* result is NaN.
ConsistencyScore(mean_sales, std_sales) ==
  IF mean_sales.num > 0
  THEN IF std_sales.nan
       THEN [kind |-> "nan", num |-> 0, den |-> 1]
       ELSE [kind |-> "value",
             num |-> std_sales.num * mean_sales.den * mean_sales.den,
             den |-> std_sales.den * mean_sales.num * mean_sales.num]
  ELSE [kind |-> "zero", num |-> 0, den |-> 1]

\* threshold = mean_sales * 0.6, the fraction num / den.
Threshold(mean_sales) == [num |-> 3 * mean_sales.num, den |-> 5 * mean_sales.den]

\* qty < threshold, qty an integer.
LessThan(qty, threshold) == qty * threshold.den < threshold.num

\* WeakBTQs with a fault: qty <= threshold.
WeakBTQsAtMost(btq_summary, threshold) ==
  LET sel == SelectSeq(btq_summary,
               LAMBDA r : r.qty * threshold.den <= threshold.num)
  IN [j \in DOMAIN sel |-> sel[j].BTQ]

WeakBTQs(btq_summary, threshold) ==
  LET sel == SelectSeq(btq_summary, LAMBDA r : LessThan(r.qty, threshold))
  IN [j \in DOMAIN sel |-> sel[j].BTQ]

StrongBTQs(btq_summary, threshold) ==
  LET sel == SelectSeq(btq_summary, LAMBDA r : ~LessThan(r.qty, threshold))
  IN [j \in DOMAIN sel |-> sel[j].BTQ]

SetMin(S) == CHOOSE x \in S : \A y \in S : x <= y
SetMax(S) == CHOOSE x \in S : \A y \in S : x >= y

\* MonthlySales with a fault: only the months that have a transaction.
MonthlySalesNonEmpty(rows) ==
  LET ms == {t.docdate : t \in Range(rows)}
      all == [k \in 1..(SetMax(ms) - SetMin(ms) + 1) |-> SetMin(ms) + k - 1]
      months == SelectSeq(all, LAMBDA m : m \in ms)
  IN [k \in DOMAIN months |->
        [docdate |-> months[k],
         qty |-> SumQty(SelectSeq(rows, LAMBDA t : t.docdate = months[k]))]]

\* item_df.groupby(pd.Grouper(key="docdate", freq="M"))["qty"].sum(): one bin
\* per calendar month from the first month with a row to the last one; a
\* month without rows is a bin of sum 0.  rows is not empty.
MonthlySales(rows) ==
  LET ms == {t.docdate : t \in Range(rows)}
  IN [k \in 1..(SetMax(ms) - SetMin(ms) + 1) |->
        [docdate |-> SetMin(ms) + k - 1,
         qty |-> SumQty(SelectSeq(rows,
                   LAMBDA t : t.docdate = SetMin(ms) + k - 1))]]

Trend(monthly_sales) ==
  IF Len(monthly_sales) >= 2
  THEN monthly_sales[Len(monthly_sales)].qty
       - monthly_sales[Len(monthly_sales) - 1].qty
  ELSE 0

TrendText(trend) ==
  IF trend > 0 THEN "increasing"
  ELSE IF trend < 0 THEN "decreasing"
  ELSE "stable"

\* TableData with a fault: the batch is the forecast cut down to a multiple of 10.
TableDataFloor(item, item_df, total_sold) ==
  [Itemcode |-> item,
   Category |-> Head(item_df).categories,
   Total_Sold_Qty |-> total_sold,
   Total_Value_Rs |-> SumValue(item_df),
   Next_Month_Forecast_Qty |-> 11 * total_sold,
   Future_Batch_Recommendation |-> ((11 * total_sold) \div 100) * 10]

\* table_data: the forecast total_sold * 1.1 in tenths, and
\* round((total_sold * 1.1) / 10) * 10.
TableData(item, item_df, total_sold) ==
  [Itemcode |-> item,
   Category |-> Head(item_df).categories,
   Total_Sold_Qty |-> total_sold,
   Total_Value_Rs |-> SumValue(item_df),
   Next_Month_Forecast_Qty |-> 11 * total_sold,
   Future_Batch_Recommendation |-> RoundHalfEven(11 * total_sold, 100) * 10]

\* What one iteration works out for its item, given the order the sort of
\* btq_summary produced.
ItemAnalysis(item, total_sold, item_df, btq_summary) ==
  LET mean_sales == MeanSales(btq_summary)
      std_sales == StdSales(btq_summary)
      threshold == Threshold(mean_sales)
      monthly_sales == MonthlySales(item_df)
      trend == Trend(monthly_sales)
  IN [item |-> item,
      total_sold |-> total_sold,
      category |-> Head(item_df).categories,
      btq_summary |-> btq_summary,
      mean_sales |-> mean_sales,
      std_sales |-> std_sales,
      consistency_score |-> ConsistencyScore(mean_sales, std_sales),
      threshold |-> threshold,
      weak_btqs |-> WeakBTQs(btq_summary, threshold),
      strong_btqs |-> StrongBTQs(btq_summary, threshold),
      monthly_sales |-> monthly_sales,
      trend |-> trend,
      trend_text |-> TrendText(trend),
      btq_chart |-> HeadN(btq_summary, top_n_btq)]

\* The sentence added to description_text.
Description(a) ==
  [item |-> a.item, category |-> a.category, region |-> selected_region,
   strong |-> a.strong_btqs, weak |-> a.weak_btqs, trend |-> a.trend_text]

\* AppendRow with a fault: the new row goes to the front.
PrependRow(rows, row) == <<row>> \o rows

\* all_table_data.append(table_data)
AppendRow(rows, row) == Append(rows, row)

\* One iteration of "for idx, row in top_items.iterrows()".  The category
\* lookup item_df['categories'].iloc[0] raises IndexError on an empty item_df;
\* nothing catches it, so the script stops there.
AnalysisItemLoop ==
  /\ app = "predictionanalysis" /\ pc = "loop" /\ loop_i < Len(top_items)
  /\ LET row == top_items[loop_i + 1]
         item == row.itemcode
         total_sold == row.qty
         item_df == SelectSeq(filtered_df, LAMBDA t : t.itemcode = item)
     IN IF item_df = <<>>
        THEN /\ pc' = "IndexError"
             /\ rendered' = rendered \o <<"subheader", "exception">>
             /\ UNCHANGED <<loop_i, reports, all_table_data, description_text>>
        ELSE \E btq_summary \in SortValuesQtyDescending(GroupByBTQ(item_df)) :
               LET a == ItemAnalysis(item, total_sold, item_df, btq_summary)
               IN /\ reports' = Append(reports, a)
                  /\ all_table_data' =
                       AppendRow(all_table_data, TableData(item, item_df, total_sold))
                  /\ description_text' = Append(description_text, Description(a))
                  /\ rendered' = rendered \o
                       <<"subheader", "markdown",
                         IF a.weak_btqs # <<>> THEN "warning: weak BTQs"
                                               ELSE "success",
                         "info", "plotly_chart">>
                  /\ loop_i' = loop_i + 1
                  /\ pc' = "loop"
  /\ UNCHANGED <<app, df, selected_region, selected_regions,
                 selected_categories, top_n, top_n_items, top_n_btq,
                 selected_columns, filtered_df, agg_df, top_items_df,
                 top_items, table_df>>

analysis_columns ==
  <<"No", "Itemcode", "Category", "Total Sold (Qty)", "Total Value (Rs)",
    "Next Month Forecast (Qty)", "Future Batch Recommendation">>

\* table_df = pd.DataFrame(all_table_data); table_df.insert(0, 'No', ...)
AnalysisTableRows(rows) ==
  [j \in DOMAIN rows |->
     [No |-> j,
      Itemcode |-> rows[j].Itemcode,
      Category |-> rows[j].Category,
      Total_Sold_Qty |-> rows[j].Total_Sold_Qty,
      Total_Value_Rs |-> rows[j].Total_Value_Rs,
      Next_Month_Forecast_Qty |-> rows[j].Next_Month_Forecast_Qty,
      Future_Batch_Recommendation |-> rows[j].Future_Batch_Recommendation]]

AnalysisDisplay ==
  /\ app = "predictionanalysis" /\ pc = "loop" /\ loop_i = Len(top_items)
  /\ table_df' = [columns |-> analysis_columns,
                  rows |-> AnalysisTableRows(all_table_data)]
  /\ rendered' = rendered \o <<"subheader", "markdown", "subheader", "dataframe">>
  /\ pc' = "done"
  /\ UNCHANGED <<app, df, selected_region, selected_regions,
                 selected_categories, top_n, top_n_items, top_n_btq,
                 selected_columns, filtered_df, agg_df, top_items_df,
                 top_items, loop_i, reports, all_table_data, description_text>>

Next ==
  \/ PredictSidebarFilters
  \/ PredictFilterData
  \/ PredictChart
  \/ PredictTable
  \/ AnalysisSidebarFilters
  \/ AnalysisFilterData
  \/ AnalysisNoData
  \/ AnalysisTopItemsChart
  \/ AnalysisIdentifyTopItems
  \/ AnalysisItemLoop
  \/ AnalysisDisplay

\* ------------------------------------------------------------------ claims
Analysis == app = "predictionanalysis"

\* The filtered transactions of one item.
ItemRows(item) == SelectSeq(filtered_df, LAMBDA t : t.itemcode = item)

\* Sum of qty over a set of row numbers.
RECURSIVE SumIdx(_, _)
SumIdx(rows, I) ==
  IF I = {} THEN 0
  ELSE LET i == CHOOSE x \in I : TRUE
       IN rows[i].qty + SumIdx(rows, I \ {i})

Abs(x) == IF x < 0 THEN -x ELSE x

\* C1: in both dashboards, once the filter has yielded no transaction, the
\* only thing the run writes is the 'no data' notice, and it ends with it: no
\* chart, no table, no aggregate.
C1_EmptyFilterStops ==
  (pc \notin {"sidebar", "filter"} /\ filtered_df = <<>>) =>
    /\ \A i \in DOMAIN rendered : rendered[i] = "warning: no data"
    /\ pc = "done" => rendered = <<"warning: no data">>

\* C2: an item sold at exactly one outlet, total q > 0, has mean = q,
\* stdDev = 0, consistency score = 100.0, no weak outlet and that outlet as
\* its only strong outlet.
C2_SingleOutlet ==
  \A k \in DOMAIN reports :
    LET a == reports[k]
        rows == ItemRows(a.item)
        outlets == {t.BTQ : t \in Range(rows)}
        q == SumIdx(rows, DOMAIN rows)
    IN (Cardinality(outlets) = 1 /\ q > 0) =>
         /\ a.mean_sales.num = q * a.mean_sales.den
         /\ ~a.std_sales.nan /\ a.std_sales.num = 0
         /\ a.consistency_score.kind = "value" /\ a.consistency_score.num = 0
         /\ a.weak_btqs = <<>>
         /\ a.strong_btqs = <<CHOOSE b \in outlets : TRUE>>

MonthsOf(rows) == {t.docdate : t \in Range(rows)}
MonthTotal(rows, m) == SumIdx(rows, {j \in DOMAIN rows : rows[j].docdate = m})
Direction(trend) ==
  IF trend > 0 THEN "increasing" ELSE IF trend < 0 THEN "decreasing" ELSE "stable"

\* C3 as stated: the buckets are the months in which the item has a
\* transaction; with fewer than two the trend is 0, otherwise it is the total
\* of the latest such month minus the total of the one before it, and the
\* direction follows the sign.
C3_TrendOverMonthsWithSales ==
  \A k \in DOMAIN reports :
    LET a == reports[k]
        rows == ItemRows(a.item)
        ms == MonthsOf(rows)
        last == SetMax(ms)
    IN /\ a.trend = IF Cardinality(ms) < 2 THEN 0
                    ELSE MonthTotal(rows, last)
                         - MonthTotal(rows, SetMax(ms \ {last}))
       /\ a.trend_text = Direction(a.trend)

\* C3 amended: the buckets are all calendar months from the item's first
\* month with a transaction to its last; with one bucket the trend is 0,
\* otherwise it is the total of the last month minus the total of the
\* calendar month just before it (0 when that month has no transaction), and
\* the direction follows the sign.
C3_TrendOverCalendarMonths ==
  \A k \in DOMAIN reports :
    LET a == reports[k]
        rows == ItemRows(a.item)
        ms == MonthsOf(rows)
        last == SetMax(ms)
    IN /\ a.trend = IF SetMin(ms) = last THEN 0
                    ELSE MonthTotal(rows, last) - MonthTotal(rows, last - 1)
       /\ a.trend_text = Direction(a.trend)

\* An item reported with sales in two months that are not adjacent.
C3_Witness ==
  \E k \in DOMAIN reports :
    LET rows == ItemRows(reports[k].item)
        ms == MonthsOf(rows)
    IN /\ Cardinality(ms) = 2
       /\ SetMax(ms) - SetMin(ms) = 2
       /\ MonthTotal(rows, SetMin(ms)) > MonthTotal(rows, SetMax(ms))
       /\ reports[k].trend > 0

\* Row number of the aggregate row with this itemcode (and region).
ItemIndex(agg, row) == CHOOSE j \in DOMAIN agg : agg[j].itemcode = row.itemcode
RegionItemIndex(agg, row) ==
  CHOOSE j \in DOMAIN agg :
    agg[j].itemcode = row.itemcode /\ agg[j].region = row.region

\* The chart rows are a stable top-n per region of the aggregate.
ChartRankedStable(out, agg, n) ==
  /\ \A i \in DOMAIN out : \E j \in DOMAIN agg : agg[j] = out[i]
  /\ \A r \in Range(RegionOrder) :
       Cardinality({i \in DOMAIN out : out[i].region = r})
         = Min2(n, Cardinality({j \in DOMAIN agg : agg[j].region = r}))
  /\ \A i, j \in DOMAIN out :
       (i < j /\ out[i].region = out[j].region) =>
         /\ out[i].qty >= out[j].qty
         /\ out[i].qty = out[j].qty =>
              RegionItemIndex(agg, out[i]) < RegionItemIndex(agg, out[j])
  /\ \A i \in DOMAIN out, j \in DOMAIN agg :
       (agg[j].region = out[i].region /\ agg[j] \notin Range(out)) =>
         /\ agg[j].qty <= out[i].qty
         /\ agg[j].qty = out[i].qty => RegionItemIndex(agg, out[i]) < j

\* The selected items are a stable top-n of the item aggregate.
ItemsRankedStable(out, agg, n) ==
  /\ \A i \in DOMAIN out : \E j \in DOMAIN agg : agg[j] = out[i]
  /\ Len(out) = Min2(n, Len(agg))
  /\ \A i, j \in DOMAIN out :
       i < j =>
         /\ out[i].qty >= out[j].qty
         /\ out[i].qty = out[j].qty => ItemIndex(agg, out[i]) < ItemIndex(agg, out[j])
  /\ \A i \in DOMAIN out, j \in DOMAIN agg :
       agg[j] \notin Range(out) =>
         /\ agg[j].qty <= out[i].qty
         /\ agg[j].qty = out[i].qty => ItemIndex(agg, out[i]) < j

ChartDone ==
  \/ app = "predict" /\ pc \in {"table", "done"}
  \/ Analysis /\ pc \in {"identify", "loop", "done"} /\ filtered_df # <<>>

TopItemsDone == Analysis /\ pc \in {"loop", "done"} /\ filtered_df # <<>>

\* C4: the per-region chart rows and the top-N item selection both have
\* min(N, rows of the group) rows per group, non-increasing quantities, no
\* omitted row larger than a returned one, and rows of equal quantity in the
\* order of the aggregate they were ranked from, so that of a tie across
\* position N the row that came first in the aggregate is kept.
C4_RankingStable ==
  /\ ChartDone =>
       ChartRankedStable(top_items_df, agg_df,
                         IF Analysis THEN top_n_items ELSE top_n)
  /\ TopItemsDone =>
       ItemsRankedStable(top_items, ItemSummary(filtered_df), top_n_items)

\* C5: for every reported item, every outlet of the item is in exactly one of
\* weak_btqs and strong_btqs, once; it is weak exactly when its total is below
\* 0.6 x mean, the mean being the item's total over its number of outlets, and
\* with mean = 0 every outlet is strong.
C5_WeakStrongPartition ==
  \A k \in DOMAIN reports :
    LET a == reports[k]
        rows == ItemRows(a.item)
        outlets == {t.BTQ : t \in Range(rows)}
        n == Cardinality(outlets)
        total == SumIdx(rows, DOMAIN rows)
        OutletTotal(b) == SumIdx(rows, {j \in DOMAIN rows : rows[j].BTQ = b})
        InWeak(b) == Cardinality({i \in DOMAIN a.weak_btqs : a.weak_btqs[i] = b})
        InStrong(b) ==
          Cardinality({i \in DOMAIN a.strong_btqs : a.strong_btqs[i] = b})
    IN /\ Range(a.weak_btqs) \cup Range(a.strong_btqs) = outlets
       /\ \A b \in outlets :
            /\ InWeak(b) + InStrong(b) = 1
            /\ InWeak(b) = 1 <=> 5 * n * OutletTotal(b) < 3 * total
            /\ total = 0 => InStrong(b) = 1

\* The example: X = 100 and Y = 40 give the threshold 42, Y weak, X strong.
C5_Witness ==
  \E k \in DOMAIN reports :
    /\ reports[k].threshold.num = 42 * reports[k].threshold.den
    /\ reports[k].weak_btqs = <<"Y">>
    /\ reports[k].strong_btqs = <<"X">>

\* The pair for a total q: the forecast is q x 1.1 (f, in tenths, is 11 q);
\* the batch b is a multiple of 10 at most 5 away from the forecast, and of
\* the two multiples that are exactly 5 away it is the even multiple
\* (round() takes a half to the even neighbour).
ForecastPair(q, f, b) ==
  /\ f = 11 * q
  /\ b % 10 = 0
  /\ Abs(10 * b - f) <= 50
  /\ Abs(10 * b - f) = 50 => (b \div 10) % 2 = 0

\* C6: every row of the summary table, in both dashboards, carries the same
\* pair for its total q: forecast = q x 1.1 and batch = round(forecast / 10)
\* x 10, a multiple of 10 at most 5 away from the forecast.
C6_ForecastPairBothCallers ==
  pc = "done" =>
    \A i \in DOMAIN table_df.rows :
      ForecastPair(table_df.rows[i].Total_Sold_Qty,
                   table_df.rows[i].Next_Month_Forecast_Qty,
                   table_df.rows[i].Future_Batch_Recommendation)

\* The example: q = 140 gives the forecast 154 and the batch 150, in the
\* per-item report of the single-region dashboard.
C6_Witness ==
  /\ Analysis /\ pc = "done"
  /\ \E i \in DOMAIN table_df.rows :
       /\ table_df.rows[i].Total_Sold_Qty = 140
       /\ table_df.rows[i].Next_Month_Forecast_Qty = 1540
       /\ table_df.rows[i].Future_Batch_Recommendation = 150

\* C7: for a non-empty filtered dataset the aggregate has exactly one row per
\* (region, itemcode) pair that occurs in it, none for a pair that does not,
\* and the row's qty is the sum of the qty of the pair's transactions.
C7_OneRowPerPair ==
  (ChartDone /\ filtered_df # <<>>) =>
    \A r \in Range(RegionOrder), c \in Range(ItemOrder) :
      LET T == {j \in DOMAIN filtered_df :
                  filtered_df[j].region = r /\ filtered_df[j].itemcode = c}
          A == {j \in DOMAIN agg_df :
                  agg_df[j].region = r /\ agg_df[j].itemcode = c}
      IN IF T = {} THEN A = {}
         ELSE /\ Cardinality(A) = 1
              /\ \A j \in A : agg_df[j].qty = SumIdx(filtered_df, T)

\* One item sold in two regions: two aggregate rows.
C7_Witness ==
  /\ ChartDone
  /\ Len(agg_df) = 2
  /\ agg_df[1].itemcode = agg_df[2].itemcode
  /\ agg_df[1].region # agg_df[2].region

\* The category lookup of the per-item loop never raises: every selected item
\* comes from filtered_df, so its item_df has a row.
CategoryLookupNeverFails == pc # "IndexError"

\* C9: the rows of the summary table follow the ranked selection: row i, with
\* serial number i, is the report of the i-th selected item, so there is one
\* row per selected item and 'Total Sold (Qty)' does not increase down the
\* table.
C9_TableFollowsRanking ==
  /\ (Analysis /\ pc \in {"loop", "done"}) =>
       /\ Len(all_table_data) = loop_i
       /\ \A i \in DOMAIN all_table_data :
            /\ all_table_data[i].Itemcode = top_items[i].itemcode
            /\ all_table_data[i].Total_Sold_Qty = top_items[i].qty
            /\ reports[i].item = top_items[i].itemcode
            /\ description_text[i].item = top_items[i].itemcode
  /\ (Analysis /\ pc = "done" /\ filtered_df # <<>>) =>
       /\ Len(table_df.rows) = Len(top_items)
       /\ \A i \in DOMAIN table_df.rows :
            /\ table_df.rows[i].No = i
            /\ table_df.rows[i].Itemcode = top_items[i].itemcode
            /\ table_df.rows[i].Total_Sold_Qty = top_items[i].qty
            /\ i < Len(table_df.rows) =>
                 table_df.rows[i].Total_Sold_Qty
                   >= table_df.rows[i + 1].Total_Sold_Qty

\* A table of two items with different totals.
C9_Witness ==
  /\ Analysis /\ pc = "done"
  /\ Len(table_df.rows) = 2
  /\ table_df.rows[1].Total_Sold_Qty > table_df.rows[2].Total_Sold_Qty

\* C10: in the single-region dashboard the items of the top-N chart are the
\* items that receive a detailed report.
C10_ChartItemsAreReportedItems ==
  TopItemsDone =>
    {top_items_df[i].itemcode : i \in DOMAIN top_items_df}
      = {top_items[i].itemcode : i \in DOMAIN top_items}

Spec == Init /\ [][Next]_vars

SpecItem == InitItem /\ [][Next]_vars

SpecForecast == InitForecast /\ [][Next]_vars
====
